---- MODULE Spec2Model ----
(***************************************************************************)
(* A model of libresponse::solve_linear_response, the non-orthogonal       *)
(* linear-response driver (src/linear/interface_nonorthogonal.C).          *)
(*                                                                         *)
(* One call of the function is a run of the state machine.  The record st  *)
(* holds the call's arguments and locals; every action is one block of     *)
(* the function body, in source order, and pc names the block to run       *)
(* next.  The record tw is a second call started with the same arguments   *)
(* except print_level = 0 and driven through the same blocks with the same *)
(* solver answers; it is what the print_level claim compares against.      *)
(*                                                                         *)
(* Numbers.  Matrices and vectors carry small integers in place of         *)
(* doubles.  A vector over the occupied-virtual pairs is a sequence of     *)
(* length nov, entry k+1 being compound index k = i*nvirt + a.  A size_t   *)
(* is held as the integer congruent to it modulo 2^64 in [-2^63, 2^63):    *)
(* a negative model value v stands for the machine value 2^64 + v.         *)
(***************************************************************************)
EXTENDS Integers, Sequences, FiniteSets, TLC

VARIABLES st, tw

vars == <<st, tw>>

-----------------------------------------------------------------------------
(* Bounds of the explored inputs.                                          *)

MaxOcc == 2
MaxOrb == 3
MaxFreq == 2
MaxOps == 2
MaxFrag == 2
MaxFragOrb == 2

(* Input alphabets. *)
OmegaVals == {1, 3}
SolverVals == {1, 2}
Labels == <<"x", "y", "z", "w">>
PrintLevels == {0, 1, 10}
ReadLevels == {0, 1, 2}
RunPrefix == <<"run1_">>

-----------------------------------------------------------------------------
(* Generic helpers.                                                        *)

RECURSIVE SumSeq(_)
SumSeq(q) == IF q = <<>> THEN 0 ELSE q[1] + SumSeq(Tail(q))

Min(a, b) == IF a <= b THEN a ELSE b

(* All sequences over S of length lo..hi. *)
SeqsOf(S, lo, hi) == UNION {[1..n -> S] : n \in lo..hi}

(* size_t arithmetic on the signed representatives. *)
USub(a, b) == a - b
ULess(a, b) == IF (a < 0) = (b < 0) THEN a < b ELSE b < 0
Wrapped(v) == v < 0

StartsWith(name, pre) ==
    /\ Len(name) >= Len(pre)
    /\ SubSeq(name, 1, Len(pre)) = pre

-----------------------------------------------------------------------------
(* Collaborators outside interface_nonorthogonal.C, after spec.md.         *)

(* operator_spec::form_rhs: RHS = C_occ^T . Integral . C_virt, flattened;  *)
(* response-vector storage of the same shape is allocated (zeros).         *)
RhsVec(coef, integrals_ao, nov) == [k \in 1..nov |-> coef * (integrals_ao + k)]
ZeroVec(nov) == [k \in 1..nov |-> 0]

form_rhs(op, C, nov_a, nov_b) ==
    [op EXCEPT
        !.rhs_alph = RhsVec(C.slices[1], op.integrals_ao, nov_a),
        !.rspvecs_alph = ZeroVec(nov_a),
        !.rhs_beta = IF Len(C.slices) = 2
                     THEN RhsVec(C.slices[2], op.integrals_ao, nov_b) ELSE <<>>,
        !.rspvecs_beta = IF Len(C.slices) = 2 THEN ZeroVec(nov_b) ELSE <<>>]

(* form_ediff_terms, diagonal, orthogonal limit: orbital p has energy 2p,  *)
(* entry k = i*nvirt + a is eps(nocc + a) - eps(i).                        *)
form_ediff_terms(nocc, nvirt) ==
    [k \in 1..(nocc * nvirt) |->
        2 * ((nocc + ((k - 1) % nvirt)) - ((k - 1) \div nvirt))]

(* make_masked_mat(out, in, idx, 0.0, true): entries outside idx become 0. *)
make_masked_mat(v, idx) == [k \in 1..Len(v) |-> IF (k - 1) \in idx THEN v[k] ELSE 0]

(* operator_spec::form_guess_rspvec: guess = gradient / (ediff - frequency) *)
(* element-wise.                                                           *)
form_guess_rspvec(rhs, ediff, frequency) ==
    [k \in 1..Len(rhs) |-> rhs[k] \div (ediff[k] - frequency)]

(* one_electron_mn_mats_to_ia_vecs: AO-basis vectors to the occ-virt MO    *)
(* basis with the channel's coefficient blocks; nothing in, nothing out.   *)
one_electron_mn_mats_to_ia_vecs(tmp_ao, coef) ==
    [k \in 1..Len(tmp_ao) |-> coef * tmp_ao[k]]

(* Inner product of a gradient vector with a response vector, over all     *)
(* pairs or over the pairs of an index set.                                *)
RECURSIVE DotUpTo(_, _, _, _)
DotUpTo(u, v, idx, n) ==
    IF n = 0 THEN 0
    ELSE DotUpTo(u, v, idx, n - 1)
         + (IF (n - 1) \in idx THEN u[n] * v[n] ELSE 0)

Dot(u, v, idx) == DotUpTo(u, v, idx, Min(Len(u), Len(v)))

AllPairs(n) == 0..(n - 1)

(* form_results: slice s, entry [p,q] = <rhs of p, rspvec of q>.           *)
ResultsSlice(ops, beta, idx) ==
    [pq \in (1..Len(ops)) \X (1..Len(ops)) |->
        IF beta
        THEN Dot(ops[pq[1]].rhs_beta, ops[pq[2]].rspvecs_beta, idx)
        ELSE Dot(ops[pq[1]].rhs_alph, ops[pq[2]].rspvecs_alph, idx)]

form_results(ops, nden, idx_alph, idx_beta) ==
    IF nden = 2
    THEN <<ResultsSlice(ops, FALSE, idx_alph), ResultsSlice(ops, TRUE, idx_beta)>>
    ELSE <<ResultsSlice(ops, FALSE, idx_alph)>>

(* Fragment index builders (indices.C).  Occupied orbitals are ordered by  *)
(* fragment; fragment k owns the pairs of its occupied orbitals with every *)
(* virtual orbital; the pooled set is the union over the fragments.        *)
OccStart(nocc_frgm, k) == SumSeq(SubSeq(nocc_frgm, 1, k - 1))

LocalOccAllVirt(nocc_frgm, nvirt_frgm, k) ==
    LET nvirt == SumSeq(nvirt_frgm)
        first == OccStart(nocc_frgm, k)
    IN {i * nvirt + a : i \in first..(first + nocc_frgm[k] - 1), a \in 0..(nvirt - 1)}

make_indices_mo_restricted_local_occ_all_virt(nocc_frgm, nvirt_frgm) ==
    [k \in 1..Len(nocc_frgm) |-> LocalOccAllVirt(nocc_frgm, nvirt_frgm, k)]

make_indices_mo_restricted(nocc_frgm, nvirt_frgm) ==
    UNION {LocalOccAllVirt(nocc_frgm, nvirt_frgm, k) : k \in 1..Len(nocc_frgm)}

-----------------------------------------------------------------------------
(* The state of one call.                                                  *)

Untouched == <<"caller">>
Unset == <<>>
IsSet(m) == DOMAIN m # {}

NoSpans ==
    [occ_alph |-> <<0, 0>>, virt_alph |-> <<0, 0>>,
     occ_beta |-> <<0, 0>>, virt_beta |-> <<0, 0>>]

(* An operator_spec as the caller hands it over: AO integrals (one         *)
(* component), label and response flag set, derived vectors empty.         *)
MakeOperator(i, do_response) ==
    [label |-> Labels[i], integrals_ao |-> i, n_slices |-> 1,
     do_response |-> do_response,
     rhs_alph |-> <<>>, rhs_beta |-> <<>>,
     rspvecs_alph |-> <<>>, rspvecs_beta |-> <<>>]

Cfg(print_level, read, save, has_prefix, prefix, frgm_idx, mask_ediff, mask_results) ==
    [print_level |-> print_level, read |-> read, save |-> save,
     has_prefix |-> has_prefix, prefix |-> prefix,
     _frgm_response_idx |-> frgm_idx,
     _mask_ediff_mo |-> mask_ediff, _mask_form_results_mo |-> mask_results,
     _do_orthogonalization_canonical |-> TRUE,
     maxiter |-> 50, conv |-> 6]

(* The state on entry to solve_linear_response. *)
Entry(occupations, C, fragment_occupations, omega, operators, cfg, disk) ==
    [pc |-> "validate", err |-> "none",
     occupations |-> occupations, C |-> C,
     fragment_occupations |-> fragment_occupations,
     omega |-> omega, operators |-> operators, cfg |-> cfg, disk |-> disk,
     results |-> Untouched,
     nden |-> 0, norb |-> 0, tot_n_slices |-> 0,
     nocc_alph |-> 0, nvirt_alph |-> 0, nov_alph |-> 0,
     nocc_beta |-> 0, nvirt_beta |-> 0, nov_beta |-> 0,
     spans |-> NoSpans,
     indices_mo_alph |-> {}, indices_mo_beta |-> {},
     ediff_alph |-> <<>>, ediff_beta |-> <<>>,
     prefix |-> <<>>, f |-> 0,
     results_alph |-> <<>>, results_beta |-> <<>>, results_freq |-> <<>>,
     work |-> {}, trace |-> <<>>, opened |-> <<>>, saved |-> <<>>,
     load_failed |-> FALSE, out |-> <<>>]

Stop(s, how, what) == [s EXCEPT !.pc = how, !.err = what]

-----------------------------------------------------------------------------
(* The blocks of solve_linear_response, as functions of the call's state.  *)

DoValidate_OperatorsUnchecked(s) ==
    IF Len(s.occupations) # 4 THEN Stop(s, "aborted", "assert occupations.n_elem")
    ELSE IF s.omega = <<>> THEN Stop(s, "thrown", "runtime_error: frequencies")
    ELSE [s EXCEPT !.pc = "dims"]

(* Lines 26-31: the occupation vector has four entries (assert), the       *)
(* frequency list and the operator list are not empty (runtime_error).     *)
DoValidate(s) ==
    IF Len(s.occupations) # 4 THEN Stop(s, "aborted", "assert occupations.n_elem")
    ELSE IF s.omega = <<>> THEN Stop(s, "thrown", "runtime_error: frequencies")
    ELSE IF s.operators = <<>> THEN Stop(s, "thrown", "runtime_error: operators")
    ELSE [s EXCEPT !.pc = "dims"]

(* Lines 35-51: the shape of C, the total component count, the result      *)
(* cubes (allocated, not yet written).                                     *)
DoDims(s) ==
    IF ~(Len(s.C.slices) \in {1, 2}) THEN Stop(s, "aborted", "assert nden")
    ELSE [s EXCEPT
            !.pc = "check_occ",
            !.nden = Len(s.C.slices),
            !.norb = s.C.n_cols,
            !.tot_n_slices = SumSeq([i \in 1..Len(s.operators) |-> s.operators[i].n_slices]),
            !.results_alph = [i \in 1..Len(s.omega) |-> Unset],
            !.results_beta = IF Len(s.C.slices) = 2
                             THEN [i \in 1..Len(s.omega) |-> Unset] ELSE <<>>,
            !.work = @ \cup {"alloc_results"}]

DoCheckOccupations_BetaWhenTwoChannels(s) ==
    LET nocc_a == s.occupations[1]
        nvirt_a == s.occupations[2]
        nocc_b == s.occupations[3]
        nvirt_b == s.occupations[4]
    IN  IF s.norb # nocc_a + nvirt_a THEN Stop(s, "aborted", "assert norb alph")
        ELSE IF s.nden = 2 /\ s.norb # nocc_b + nvirt_b
             THEN Stop(s, "aborted", "assert norb beta")
        ELSE [s EXCEPT
                !.pc = "settings",
                !.nocc_alph = nocc_a, !.nvirt_alph = nvirt_a,
                !.nov_alph = nocc_a * nvirt_a,
                !.nocc_beta = nocc_b, !.nvirt_beta = nvirt_b,
                !.nov_beta = nocc_b * nvirt_b]

(* Lines 53-62: norb = nocc + nvirt for alpha, then for beta, then equal   *)
(* rotation-space sizes when the occupied counts agree.                    *)
DoCheckOccupations(s) ==
    LET nocc_a == s.occupations[1]
        nvirt_a == s.occupations[2]
        nocc_b == s.occupations[3]
        nvirt_b == s.occupations[4]
    IN  IF s.norb # nocc_a + nvirt_a THEN Stop(s, "aborted", "assert norb alph")
        ELSE IF s.norb # nocc_b + nvirt_b THEN Stop(s, "aborted", "assert norb beta")
        ELSE IF nocc_a = nocc_b /\ nocc_a * nvirt_a # nocc_b * nvirt_b
             THEN Stop(s, "aborted", "assert nov")
        ELSE [s EXCEPT
                !.pc = "settings",
                !.nocc_alph = nocc_a, !.nvirt_alph = nvirt_a,
                !.nov_alph = nocc_a * nvirt_a,
                !.nocc_beta = nocc_b, !.nvirt_beta = nvirt_b,
                !.nov_beta = nocc_b * nvirt_b]

(* Lines 66-99: read the settings, print them at print_level >= 1.         *)
DoSettings(s) ==
    [s EXCEPT
        !.pc = "slice",
        !.out = IF s.cfg.print_level >= 1 THEN Append(@, <<"Settings">>) ELSE @]

(* Lines 102-109: the column spans of the occupied and virtual blocks, in  *)
(* size_t arithmetic.  Armadillo rejects a span whose end lies before its  *)
(* start or beyond the last column (std::logic_error).                     *)
SpanOcc(nocc) == <<0, USub(nocc, 1)>>
SpanVirt(nocc, norb) == <<nocc, USub(norb, 1)>>
SpanInBounds(sp, n_cols) == ~ULess(sp[2], sp[1]) /\ ULess(sp[2], n_cols)

DoSlice(s) ==
    LET sp == [occ_alph |-> SpanOcc(s.nocc_alph),
               virt_alph |-> SpanVirt(s.nocc_alph, s.norb),
               occ_beta |-> IF s.nden = 2 THEN SpanOcc(s.nocc_beta) ELSE <<0, 0>>,
               virt_beta |-> IF s.nden = 2 THEN SpanVirt(s.nocc_beta, s.norb)
                             ELSE <<0, 0>>]
        used == IF s.nden = 2
                THEN {sp.occ_alph, sp.virt_alph, sp.occ_beta, sp.virt_beta}
                ELSE {sp.occ_alph, sp.virt_alph}
        t == [s EXCEPT !.spans = sp, !.work = @ \cup {"slice"}]
    IN  IF \A x \in used : SpanInBounds(x, s.norb)
        THEN [t EXCEPT !.pc = "transform"]
        ELSE Stop(t, "thrown", "logic_error: span")

(* Lines 111-147: MO-basis overlap and Fock matrices, pseudo-inverses.     *)
DoTransform(s) ==
    [s EXCEPT
        !.pc = "indices",
        !.work = @ \cup {"sigma", "fock"}
                   \cup (IF s.cfg._do_orthogonalization_canonical THEN {"pinv"} ELSE {}),
        !.out = IF s.cfg.print_level >= 10 THEN Append(@, <<"sigma", "F">>) ELSE @]

(* Lines 149-153: the columns of the fragment occupation table. *)
Column(table, c) == [r \in 1..Len(table) |-> table[r][c]]
VecSub(u, v) == [r \in 1..Len(u) |-> USub(u[r], v[r])]

norb_frgm(table) == Column(table, 2)
nocc_frgm_alph(table) == Column(table, 3)
nocc_frgm_beta(table) == Column(table, 4)
nvirt_frgm_alph(table) == VecSub(norb_frgm(table), nocc_frgm_alph(table))
nvirt_frgm_beta(table) == VecSub(norb_frgm(table), nocc_frgm_beta(table))

(* Lines 155-166: the restricted index set of each channel; .at() throws   *)
(* std::out_of_range past the last fragment.                               *)
IndicesAlph(table, idx) ==
    IF idx > 0
    THEN make_indices_mo_restricted_local_occ_all_virt(
             nocc_frgm_alph(table), nvirt_frgm_beta(table))[idx]
    ELSE make_indices_mo_restricted(nocc_frgm_alph(table), nvirt_frgm_alph(table))

IndicesBeta(table, idx) ==
    IF idx > 0
    THEN make_indices_mo_restricted_local_occ_all_virt(
             nocc_frgm_beta(table), nvirt_frgm_beta(table))[idx]
    ELSE make_indices_mo_restricted(nocc_frgm_beta(table), nvirt_frgm_beta(table))

DoIndices(s) ==
    LET idx == s.cfg._frgm_response_idx
    IN  IF idx > Len(s.fragment_occupations)
        THEN Stop([s EXCEPT !.work = @ \cup {"indices"}], "thrown", "out_of_range")
        ELSE [s EXCEPT
                !.pc = "ediff",
                !.indices_mo_alph = IndicesAlph(s.fragment_occupations, idx),
                !.indices_mo_beta = IndicesBeta(s.fragment_occupations, idx),
                !.work = @ \cup {"indices"},
                !.out = IF s.cfg.print_level >= 10 THEN Append(@, <<"indices_mo">>) ELSE @]

(* Lines 180-208: the energy-difference operator of each channel, masked   *)
(* to the channel's index set when _mask_ediff_mo is set.                  *)
DoEdiff(s) ==
    LET ea == form_ediff_terms(s.nocc_alph, s.nvirt_alph)
        eb == IF s.nden = 2 THEN form_ediff_terms(s.nocc_beta, s.nvirt_beta) ELSE <<>>
        mask == s.cfg._mask_ediff_mo
    IN  [s EXCEPT
            !.pc = "save_ediff",
            !.ediff_alph = IF mask THEN make_masked_mat(ea, s.indices_mo_alph) ELSE ea,
            !.ediff_beta = IF mask /\ s.nden = 2
                           THEN make_masked_mat(eb, s.indices_mo_beta) ELSE eb,
            !.work = @ \cup {"ediff"},
            !.out = IF s.cfg.print_level >= 10 THEN Append(@, <<"ediff">>) ELSE @]

(* Lines 210-220: the checkpoint prefix (empty when the key is absent) and *)
(* the energy-difference files written when save > 0.                      *)
Prefix(cfg) == IF cfg.has_prefix THEN cfg.prefix ELSE <<>>

EdiffFile(prefix, spin) == prefix \o <<"ediff_", spin, ".dat">>

Written(name, data) == [mode |-> "write", name |-> name, data |-> data]
Read(name) == [mode |-> "read", name |-> name, data |-> <<>>]

DoSaveEdiff(s) ==
    LET prefix == Prefix(s.cfg)
        wa == Written(EdiffFile(prefix, "alph"), s.ediff_alph)
        wb == Written(EdiffFile(prefix, "beta"), s.ediff_beta)
        ws == IF s.cfg.save > 0
              THEN (IF s.nden = 2 THEN <<wa, wb>> ELSE <<wa>>)
              ELSE <<>>
    IN  [s EXCEPT
            !.pc = "form_rhs",
            !.prefix = prefix,
            !.opened = @ \o ws,
            !.disk = [n \in DOMAIN @ \cup {ws[i].name : i \in 1..Len(ws)} |->
                        IF \E i \in 1..Len(ws) : ws[i].name = n
                        THEN (CHOOSE w \in {ws[i] : i \in 1..Len(ws)} : w.name = n).data
                        ELSE @[n]]]

(* Lines 228-231: the gradient vectors of every operator. *)
DoFormRhs(s) ==
    [s EXCEPT
        !.pc = "read",
        !.operators = [i \in 1..Len(@) |-> form_rhs(@[i], s.C, s.nov_alph, s.nov_beta)],
        !.work = @ \cup {"form_rhs"}]

(* Lines 233-265: response vectors read back from checkpoints.  An         *)
(* Armadillo load that fails resets its target and returns false; the      *)
(* return value is not looked at.                                          *)
RspvecsFile(label, basis, spin) == <<"rspvecs_", label, "_", basis, "_", spin, ".dat">>

Exists(disk, name) == name \in DOMAIN disk
Load(disk, name) == IF Exists(disk, name) THEN disk[name] ELSE <<>>

ReadOperator(op, read_level, nden, disk, C) ==
    LET mo_a == RspvecsFile(op.label, "mo", "alph")
        ao_a == RspvecsFile(op.label, "ao", "alph")
        mo_b == RspvecsFile(op.label, "mo", "beta")
        ao_b == RspvecsFile(op.label, "ao", "beta")
    IN  IF ~op.do_response THEN op
        ELSE [op EXCEPT
                !.rspvecs_alph =
                    IF read_level = 1 THEN Load(disk, mo_a)
                    ELSE IF read_level = 2
                    THEN one_electron_mn_mats_to_ia_vecs(Load(disk, ao_a), C.slices[1])
                    ELSE @,
                !.rspvecs_beta =
                    IF nden # 2 THEN @
                    ELSE IF read_level = 1 THEN Load(disk, mo_b)
                    ELSE IF read_level = 2
                    THEN one_electron_mn_mats_to_ia_vecs(Load(disk, ao_b), C.slices[2])
                    ELSE @]

(* The files the read of one operator opens, in order. *)
ReadNames(op, read_level, nden) ==
    LET basis == IF read_level = 1 THEN "mo" ELSE "ao"
    IN  IF ~op.do_response \/ ~(read_level \in {1, 2}) THEN <<>>
        ELSE IF nden = 2
        THEN <<RspvecsFile(op.label, basis, "alph"), RspvecsFile(op.label, basis, "beta")>>
        ELSE <<RspvecsFile(op.label, basis, "alph")>>

RECURSIVE AllReadNames(_, _, _)
AllReadNames(ops, read_level, nden) ==
    IF ops = <<>> THEN <<>>
    ELSE ReadNames(ops[1], read_level, nden) \o AllReadNames(Tail(ops), read_level, nden)

DoRead(s) ==
    LET names == AllReadNames(s.operators, s.cfg.read, s.nden)
    IN  [s EXCEPT
            !.pc = "set_occ",
            !.operators = [i \in 1..Len(@) |->
                             ReadOperator(@[i], s.cfg.read, s.nden, s.disk, s.C)],
            !.opened = @ \o [i \in 1..Len(names) |-> Read(names[i])],
            !.load_failed = \E i \in 1..Len(names) : ~Exists(s.disk, names[i])]

(* Lines 267-271: the occupations handed to the solver. *)
DoSetOccupations(s) ==
    [s EXCEPT
        !.pc = "guess",
        !.f = 0,
        !.trace = @ \o <<[name |-> "set_orbital_occupations",
                          arg |-> <<s.nocc_alph, s.nvirt_alph, s.nocc_beta, s.nvirt_beta>>],
                         [name |-> "set_fragment_occupations",
                          arg |-> s.fragment_occupations]>>]

(* Lines 275-296: with read = 0 the uncoupled guess of every operator at   *)
(* this frequency, saved when save > 0.                                    *)
GuessOperator(op, s) ==
    LET frequency == s.omega[s.f + 1]
    IN  [op EXCEPT
            !.rspvecs_alph = form_guess_rspvec(op.rhs_alph, s.ediff_alph, frequency),
            !.rspvecs_beta = IF s.nden = 2
                             THEN form_guess_rspvec(op.rhs_beta, s.ediff_beta, frequency)
                             ELSE @]

Saved(ops, save_level, is_guess) ==
    IF save_level > 0
    THEN [i \in 1..Len(ops) |->
            [label |-> ops[i].label, is_guess |-> is_guess,
             rspvecs_alph |-> ops[i].rspvecs_alph, rspvecs_beta |-> ops[i].rspvecs_beta]]
    ELSE <<>>

DoGuess(s) ==
    IF s.cfg.read = 0
    THEN LET ops == [i \in 1..Len(s.operators) |-> GuessOperator(s.operators[i], s)]
         IN  [s EXCEPT
                !.pc = "report",
                !.results_freq = [c \in 1..s.nden |-> Unset],
                !.operators = ops,
                !.saved = @ \o Saved(ops, s.cfg.save, TRUE)]
    ELSE [s EXCEPT !.pc = "report", !.results_freq = [c \in 1..s.nden |-> Unset]]

(* Lines 299-314 and 333-336: form_results with or without the index sets. *)
FormResults(s) ==
    IF s.cfg._mask_form_results_mo
    THEN form_results(s.operators, s.nden, s.indices_mo_alph, s.indices_mo_beta)
    ELSE form_results(s.operators, s.nden, AllPairs(s.nov_alph), AllPairs(s.nov_beta))

MatAdd(A, B) == [pq \in DOMAIN A |-> A[pq] + B[pq]]
MatScale(k, A) == [pq \in DOMAIN A |-> k * A[pq]]

(* Lines 299-314: at print_level >= 1 the uncoupled result is formed in    *)
(* results_freq, summed over the channels for printing, and results_freq   *)
(* is doubled in place when there are two channels.                        *)
DoReport(s) ==
    IF s.cfg.print_level >= 1
    THEN LET rf == FormResults(s)
             results_freq_mat == IF s.nden = 2 THEN MatAdd(rf[1], rf[2]) ELSE rf[1]
         IN  [s EXCEPT
                !.pc = "init",
                !.results_freq = IF s.nden = 2
                                 THEN [c \in 1..2 |-> MatScale(2, rf[c])] ELSE rf,
                !.out = Append(@, <<"Uncoupled result", results_freq_mat>>)]
    ELSE [s EXCEPT !.pc = "init"]

(* Lines 317-324: solver_iterator->init. *)
Rspvecs(ops) ==
    [i \in 1..Len(ops) |->
        [rspvecs_alph |-> ops[i].rspvecs_alph, rspvecs_beta |-> ops[i].rspvecs_beta]]

DoSolverInit(s) ==
    [s EXCEPT
        !.pc = "run",
        !.trace = Append(@, [name |-> "init",
                             arg |-> [frequency |-> s.omega[s.f + 1],
                                      operators |-> Rspvecs(s.operators),
                                      ediff_alph |-> s.ediff_alph,
                                      ediff_beta |-> s.ediff_beta,
                                      maxiter |-> s.cfg.maxiter,
                                      conv |-> s.cfg.conv]])]

(* Line 327: solver_iterator->run; the solver leaves its answer in the     *)
(* response vectors of every operator that takes part in the solve (va in  *)
(* the alpha channel, vb in the beta).                                     *)
Fill(v, n) == [k \in 1..n |-> v]

DoSolverRun(s, va, vb) ==
    [s EXCEPT
        !.pc = "assemble",
        !.operators = [i \in 1..Len(@) |->
                          IF ~@[i].do_response THEN @[i]
                          ELSE [@[i] EXCEPT
                                  !.rspvecs_alph = Fill(va, s.nov_alph),
                                  !.rspvecs_beta = IF s.nden = 2
                                                   THEN Fill(vb, s.nov_beta) ELSE @]],
        !.trace = Append(@, [name |-> "run", arg |-> <<va, vb>>])]

DoAssemble_ReportReused(s) ==
    LET rf == IF s.cfg.print_level >= 1 THEN s.results_freq ELSE FormResults(s)
    IN  [s EXCEPT
            !.pc = "save_ops",
            !.results_freq = rf,
            !.results_alph = [@ EXCEPT ![s.f + 1] = rf[1]],
            !.results_beta = IF s.nden = 2 THEN [@ EXCEPT ![s.f + 1] = rf[2]] ELSE @,
            !.trace = Append(@, [name |-> "assemble", arg |-> s.f])]

(* Lines 333-339: the final values of this frequency. *)
DoAssemble(s) ==
    LET rf == FormResults(s)
    IN  [s EXCEPT
            !.pc = "save_ops",
            !.results_freq = rf,
            !.results_alph = [@ EXCEPT ![s.f + 1] = rf[1]],
            !.results_beta = IF s.nden = 2 THEN [@ EXCEPT ![s.f + 1] = rf[2]] ELSE @,
            !.trace = Append(@, [name |-> "assemble", arg |-> s.f])]

DoSaveOperators_FirstFrequencyOnly(s) ==
    [s EXCEPT
        !.pc = "combine",
        !.f = s.f + 1,
        !.saved = @ \o Saved(s.operators, s.cfg.save, FALSE)]

(* Lines 342-344: save the vectors when save > 0, next frequency. *)
DoSaveOperators(s) ==
    [s EXCEPT
        !.pc = IF s.f + 1 < Len(s.omega) THEN "guess" ELSE "combine",
        !.f = s.f + 1,
        !.saved = @ \o Saved(s.operators, s.cfg.save, FALSE)]

Combine_Undoubled(nden, results_alph, results_beta) ==
    IF nden = 1 THEN results_alph
    ELSE [i \in 1..Len(results_alph) |-> MatAdd(results_alph[i], results_beta[i])]

(* Lines 346-351: the channels combined into the caller's tensor. *)
Combine(nden, results_alph, results_beta) ==
    IF nden = 1 THEN results_alph
    ELSE [i \in 1..Len(results_alph) |->
            MatScale(2, MatAdd(results_alph[i], results_beta[i]))]

(* Lines 346-359. *)
DoCombine(s) ==
    LET r == Combine(s.nden, s.results_alph, s.results_beta)
    IN  [s EXCEPT
            !.pc = "done",
            !.results = r,
            !.out = IF s.cfg.print_level >= 1 THEN Append(@, <<"Final result", r>>) ELSE @]

-----------------------------------------------------------------------------
(* Calls.                                                                  *)

(* Checkpoints a previous run left for the operators in present: the MO-   *)
(* and AO-basis response vectors of both channels, under the names the     *)
(* read at lines 240-257 asks for.                                         *)
CheckpointNames(present) ==
    {RspvecsFile(l, b, c) : l \in present, b \in {"mo", "ao"}, c \in {"alph", "beta"}}

Checkpoints(present, nov) ==
    [n \in CheckpointNames(present) |->
        [k \in 1..nov |-> (IF n[6] = "beta" THEN 6 ELSE 4) + k]]

(* One fragment holding every orbital. *)
WholeTable(norb, occupations) ==
    IF Len(occupations) = 4
    THEN <<(<<1, norb, occupations[1], occupations[3]>>)>>
    ELSE <<(<<1, norb, 0, 0>>)>>

Operators(n, last_do_response) ==
    [i \in 1..n |-> MakeOperator(i, IF i = n THEN last_do_response ELSE TRUE)]

(* The second call: the same arguments, print_level = 0. *)
Quiet(s) == [s EXCEPT !.cfg.print_level = 0]

(* Calls that probe the input checks: any occupation vector of three or    *)
(* four entries against any orbital count, one to three coefficient        *)
(* slices, empty and non-empty frequency and operator lists.               *)
CallState(s) ==
    \E occ \in SeqsOf(0..MaxOcc, 3, 4), norb \in 0..MaxOrb,
       sl \in {<<1>>, <<1, 2>>, <<1, 1, 1>>},
       om \in {<<>>, <<1>>}, nops \in {0, 1},
       rd \in {0, 1}, sv \in {0, 1} :
        s = Entry(occ, [n_cols |-> norb, slices |-> sl], WholeTable(norb, occ), om,
                  Operators(nops, TRUE),
                  Cfg(0, rd, sv, FALSE, <<>>, 0, FALSE, FALSE),
                  Checkpoints({"x"}, 1))

(* Calls that probe the frequency loop: a valid open-shell-capable system  *)
(* (one occupied, two virtual orbitals per channel), one or two channels   *)
(* with equal or different coefficients, every read mode and print level.  *)
LoopState(s) ==
    \E sl \in {<<1>>, <<1, 1>>, <<1, 2>>},
       om \in SeqsOf(OmegaVals, 1, MaxFreq),
       nops \in 1..MaxOps, dr \in BOOLEAN,
       pl \in PrintLevels, rd \in ReadLevels, mr \in BOOLEAN :
        s = Entry(<<1, 2, 1, 2>>, [n_cols |-> 3, slices |-> sl],
                  WholeTable(3, <<1, 2, 1, 2>>), om, Operators(nops, dr),
                  Cfg(pl, rd, 1, FALSE, <<>>, 0, FALSE, mr),
                  Checkpoints({Labels[i] : i \in 1..nops}, 2))

(* Calls that probe the checkpoint files: every read mode, save level and  *)
(* prefix, with the checkpoints of some operators missing.                 *)
FileState(s) ==
    \E sl \in {<<1>>, <<1, 2>>},
       nops \in 1..MaxOps,
       pl \in {0, 1}, rd \in ReadLevels, sv \in {0, 1},
       pre \in {<<FALSE, <<>>>>, <<TRUE, <<>>>>, <<TRUE, RunPrefix>>} :
        \E dr \in [1..nops -> BOOLEAN], present \in SUBSET {Labels[i] : i \in 1..nops} :
            s = Entry(<<1, 2, 1, 2>>, [n_cols |-> 3, slices |-> sl],
                      WholeTable(3, <<1, 2, 1, 2>>), <<1, 3>>,
                      [i \in 1..nops |-> MakeOperator(i, dr[i])],
                      Cfg(pl, rd, sv, pre[1], pre[2], 0, FALSE, FALSE),
                      Checkpoints(present, 2))

(* Calls that probe the fragment index sets: every fragment occupation     *)
(* table of up to MaxFrag fragments, with the occupation vector and the    *)
(* orbital count the table implies, pooled or with one fragment selected.  *)
FragmentCounts ==
    {c \in (1..MaxFragOrb) \X (0..MaxFragOrb) \X (0..MaxFragOrb) :
        c[2] <= c[1] /\ c[3] <= c[1]}

TablesOf(nfrag) ==
    {[r \in 1..nfrag |-> <<r, q[r][1], q[r][2], q[r][3]>>] :
        q \in [1..nfrag -> FragmentCounts]}

TableOccupations(t) ==
    <<SumSeq(nocc_frgm_alph(t)), SumSeq(nvirt_frgm_alph(t)),
      SumSeq(nocc_frgm_beta(t)), SumSeq(nvirt_frgm_beta(t))>>

IndexState(s) ==
    \E nfrag \in 1..MaxFrag, sl \in {<<1>>, <<1, 2>>},
       idx \in 0..(MaxFrag + 1), me \in BOOLEAN : \E t \in TablesOf(nfrag) :
        s = Entry(TableOccupations(t), [n_cols |-> SumSeq(norb_frgm(t)), slices |-> sl],
                  t, <<1>>, Operators(1, TRUE),
                  Cfg(0, 0, 0, FALSE, <<>>, idx, me, TRUE),
                  Checkpoints({}, 1))

-----------------------------------------------------------------------------
(* The state machine: both calls take each block together.                 *)

Validate ==
    /\ st.pc = "validate"
    /\ st' = DoValidate(st)
    /\ tw' = IF tw.pc = "validate" THEN DoValidate(tw) ELSE tw

Dims ==
    /\ st.pc = "dims"
    /\ st' = DoDims(st)
    /\ tw' = IF tw.pc = "dims" THEN DoDims(tw) ELSE tw

CheckOccupations ==
    /\ st.pc = "check_occ"
    /\ st' = DoCheckOccupations(st)
    /\ tw' = IF tw.pc = "check_occ" THEN DoCheckOccupations(tw) ELSE tw

Settings ==
    /\ st.pc = "settings"
    /\ st' = DoSettings(st)
    /\ tw' = IF tw.pc = "settings" THEN DoSettings(tw) ELSE tw

Slice ==
    /\ st.pc = "slice"
    /\ st' = DoSlice(st)
    /\ tw' = IF tw.pc = "slice" THEN DoSlice(tw) ELSE tw

Transform ==
    /\ st.pc = "transform"
    /\ st' = DoTransform(st)
    /\ tw' = IF tw.pc = "transform" THEN DoTransform(tw) ELSE tw

Indices ==
    /\ st.pc = "indices"
    /\ st' = DoIndices(st)
    /\ tw' = IF tw.pc = "indices" THEN DoIndices(tw) ELSE tw

Ediff ==
    /\ st.pc = "ediff"
    /\ st' = DoEdiff(st)
    /\ tw' = IF tw.pc = "ediff" THEN DoEdiff(tw) ELSE tw

SaveEdiff ==
    /\ st.pc = "save_ediff"
    /\ st' = DoSaveEdiff(st)
    /\ tw' = IF tw.pc = "save_ediff" THEN DoSaveEdiff(tw) ELSE tw

FormRhs ==
    /\ st.pc = "form_rhs"
    /\ st' = DoFormRhs(st)
    /\ tw' = IF tw.pc = "form_rhs" THEN DoFormRhs(tw) ELSE tw

ReadCheckpoints ==
    /\ st.pc = "read"
    /\ st' = DoRead(st)
    /\ tw' = IF tw.pc = "read" THEN DoRead(tw) ELSE tw

SetOccupations ==
    /\ st.pc = "set_occ"
    /\ st' = DoSetOccupations(st)
    /\ tw' = IF tw.pc = "set_occ" THEN DoSetOccupations(tw) ELSE tw

Guess ==
    /\ st.pc = "guess"
    /\ st' = DoGuess(st)
    /\ tw' = IF tw.pc = "guess" THEN DoGuess(tw) ELSE tw

Report ==
    /\ st.pc = "report"
    /\ st' = DoReport(st)
    /\ tw' = IF tw.pc = "report" THEN DoReport(tw) ELSE tw

SolverInit ==
    /\ st.pc = "init"
    /\ st' = DoSolverInit(st)
    /\ tw' = IF tw.pc = "init" THEN DoSolverInit(tw) ELSE tw

(* The solver's answer is its own; the same solver answers both calls. *)
SolverAnswers == {<<1, 1>>, <<2, 1>>}

SolverRun ==
    /\ st.pc = "run"
    /\ \E ans \in SolverAnswers :
        /\ st' = DoSolverRun(st, ans[1], ans[2])
        /\ tw' = IF tw.pc = "run" THEN DoSolverRun(tw, ans[1], ans[2]) ELSE tw

Assemble ==
    /\ st.pc = "assemble"
    /\ st' = DoAssemble(st)
    /\ tw' = IF tw.pc = "assemble" THEN DoAssemble(tw) ELSE tw

SaveOperators ==
    /\ st.pc = "save_ops"
    /\ st' = DoSaveOperators(st)
    /\ tw' = IF tw.pc = "save_ops" THEN DoSaveOperators(tw) ELSE tw

CombineChannels ==
    /\ st.pc = "combine"
    /\ st' = DoCombine(st)
    /\ tw' = IF tw.pc = "combine" THEN DoCombine(tw) ELSE tw

Next ==
    \/ Validate
    \/ Dims
    \/ CheckOccupations
    \/ Settings
    \/ Slice
    \/ Transform
    \/ Indices
    \/ Ediff
    \/ SaveEdiff
    \/ FormRhs
    \/ ReadCheckpoints
    \/ SetOccupations
    \/ Guess
    \/ Report
    \/ SolverInit
    \/ SolverRun
    \/ Assemble
    \/ SaveOperators
    \/ CombineChannels

Init == CallState(st) /\ tw = Quiet(st)
InitLoop == LoopState(st) /\ tw = Quiet(st)
InitFiles == FileState(st) /\ tw = Quiet(st)
InitIndex == IndexState(st) /\ tw = Quiet(st)

Spec == Init /\ [][Next]_vars
SpecLoop == InitLoop /\ [][Next]_vars
SpecFiles == InitFiles /\ [][Next]_vars
SpecIndex == InitIndex /\ [][Next]_vars

Returned == st.pc = "done"
Failed == st.pc \in {"thrown", "aborted"}

-----------------------------------------------------------------------------
(* Properties.                                                             *)

ListsEmpty(s) == s.omega = <<>> \/ s.operators = <<>>

OperatorsAsGiven(s) ==
    \A i \in 1..Len(s.operators) :
        /\ s.operators[i].rhs_alph = <<>> /\ s.operators[i].rhs_beta = <<>>
        /\ s.operators[i].rspvecs_alph = <<>> /\ s.operators[i].rspvecs_beta = <<>>

NothingStarted(s) ==
    /\ s.results = Untouched
    /\ s.trace = <<>>
    /\ s.opened = <<>> /\ s.saved = <<>>
    /\ s.work = {}
    /\ OperatorsAsGiven(s)

(* C1: a call with a four-entry occupation vector and an empty frequency   *)
(* list or an empty operator list ends in a thrown runtime_error, with the *)
(* results tensor untouched, no solver method called, no operator          *)
(* modified, no file opened and no computation done.                       *)
C1_EmptyListsRejected ==
    (Len(st.occupations) = 4 /\ ListsEmpty(st)) =>
        /\ st.pc \in {"validate", "thrown"}
        /\ st.pc = "thrown" =>
             st.err \in {"runtime_error: frequencies", "runtime_error: operators"}
        /\ NothingStarted(st)

C1_Witness ==
    /\ st.pc = "thrown"
    /\ Len(st.occupations) = 4
    /\ st.omega # <<>> /\ st.operators = <<>>
    /\ st.err = "runtime_error: operators"

OrbitalMismatch(s) ==
    /\ Len(s.occupations) = 4
    /\ \/ s.C.n_cols # s.occupations[1] + s.occupations[2]
       \/ s.C.n_cols # s.occupations[3] + s.occupations[4]

MatrixWork == {"slice", "sigma", "fock", "pinv", "indices", "ediff", "form_rhs"}

(* C7: when norb differs from nocc + nvirt of either channel the call      *)
(* never gets past the occupation checks: no coefficient slicing, matrix   *)
(* product, pseudo-inverse, index set, checkpoint I/O or solver call       *)
(* happens, and a call that passed the list checks and the channel-count   *)
(* check ends in the failed norb assertion - the beta one also when C has  *)
(* a single slice.                                                         *)
C7_OrbitalCountEnforced ==
    OrbitalMismatch(st) =>
        /\ st.work \cap MatrixWork = {}
        /\ st.trace = <<>> /\ st.opened = <<>> /\ st.saved = <<>>
        /\ st.pc \in {"validate", "dims", "check_occ", "thrown", "aborted"}
        /\ st.pc = "thrown" => ListsEmpty(st)
        /\ st.pc = "aborted" =>
             \/ st.err \in {"assert norb alph", "assert norb beta"}
             \/ st.err = "assert nden" /\ ~(Len(st.C.slices) \in {1, 2})

C7_Witness ==
    /\ OrbitalMismatch(st)
    /\ Len(st.C.slices) = 1
    /\ st.C.n_cols = st.occupations[1] + st.occupations[2]
    /\ st.pc = "aborted" /\ st.err = "assert norb beta"

ValidOccupations(s) ==
    /\ Len(s.occupations) = 4
    /\ s.C.n_cols = s.occupations[1] + s.occupations[2]
    /\ s.C.n_cols = s.occupations[3] + s.occupations[4]

SpanGood(sp, n_cols) ==
    /\ ~Wrapped(sp[2])
    /\ sp[1] <= sp[2] + 1
    /\ sp[2] < n_cols

(* C9: for every occupation vector satisfying the invariants, zero counts  *)
(* included, the occupied span [0, nocc-1] and the virtual span            *)
(* [nocc, norb-1] are computed without unsigned wrap-around and are valid  *)
(* ranges (first <= last + 1, last < norb).                                *)
C9_SpansNeverWrap ==
    (ValidOccupations(st) /\ "slice" \in st.work) =>
        /\ SpanGood(st.spans.occ_alph, st.norb)
        /\ SpanGood(st.spans.virt_alph, st.norb)
        /\ st.nden = 2 =>
             /\ SpanGood(st.spans.occ_beta, st.norb)
             /\ SpanGood(st.spans.virt_beta, st.norb)

(* The solver calls and slice assemblies a call over frequencies om makes. *)
Event(e) ==
    IF e.name = "init" THEN <<"init", e.arg.frequency>>
    ELSE IF e.name = "assemble" THEN <<"assemble", e.arg>>
    ELSE <<e.name>>

RECURSIVE FrequencyEvents(_, _)
FrequencyEvents(om, f) ==
    IF f = Len(om) THEN <<>>
    ELSE <<(<<"init", om[f + 1]>>), (<<"run">>), (<<"assemble", f>>)>>
         \o FrequencyEvents(om, f + 1)

ExpectedEvents(om) ==
    <<(<<"set_orbital_occupations">>), (<<"set_fragment_occupations">>)>>
    \o FrequencyEvents(om, 0)

Events(s) == [i \in 1..Len(s.trace) |-> Event(s.trace[i])]

Assembled(s, f) == \E i \in 1..Len(s.trace) : Event(s.trace[i]) = <<"assemble", f>>

(* C2: the occupation setters are called once each before the first init;  *)
(* then, in input order, each frequency gets one init carrying it, one     *)
(* run, and the assembly of its slice before the next init.  A call that   *)
(* returns has made exactly n init/run pairs and returns n slices.         *)
C2_SolverDrivenInOrder ==
    /\ Len(Events(st)) <= Len(ExpectedEvents(st.omega))
    /\ Events(st) = SubSeq(ExpectedEvents(st.omega), 1, Len(st.trace))
    /\ \A i \in 1..Len(st.results_alph) :
         IsSet(st.results_alph[i]) <=> Assembled(st, i - 1)
    /\ Returned =>
         /\ Events(st) = ExpectedEvents(st.omega)
         /\ Len(st.results) = Len(st.omega)

C2_Witness ==
    /\ Returned
    /\ Len(st.omega) >= 2 /\ st.omega[1] # st.omega[2]
    /\ Len(st.trace) = 2 + 3 * Len(st.omega)

(* The vectors the call hands to init at the current frequency when        *)
(* nothing of an earlier frequency is left in them: the uncoupled guess    *)
(* (read = 0) or the vectors read from the checkpoints, which are the ones *)
(* handed to the first init.                                               *)
FreshStart(s) ==
    IF s.cfg.read = 0
    THEN Rspvecs([i \in 1..Len(s.operators) |-> GuessOperator(s.operators[i], s)])
    ELSE s.trace[3].arg.operators

(* C3: in every read mode, the response vectors handed to init at          *)
(* frequency f >= 1 do not depend on what the solver left at f-1.          *)
C3_NoCarryOver ==
    (st.pc = "run" /\ st.f >= 1) =>
        st.trace[Len(st.trace)].arg.operators = FreshStart(st)

(* C4: the returned tensor is the alpha tensor with one channel and        *)
(* 2*(alpha + beta) entry by entry with two; with identical channel        *)
(* tensors it is 4 times the single-channel tensor.                        *)
C4_ChannelCombination ==
    Returned =>
        \A f \in 1..Len(st.omega) : \A pq \in DOMAIN st.results[f] :
            /\ st.nden = 1 => st.results[f][pq] = st.results_alph[f][pq]
            /\ st.nden = 2 =>
                 st.results[f][pq] = 2 * (st.results_alph[f][pq] + st.results_beta[f][pq])
            /\ (st.nden = 2 /\ st.results_alph = st.results_beta) =>
                 st.results[f][pq] = 4 * st.results_alph[f][pq]

C4_Witness ==
    /\ Returned
    /\ st.nden = 2
    /\ st.results_alph = st.results_beta
    /\ \E f \in 1..Len(st.omega) : \E pq \in DOMAIN st.results[f] :
         st.results_alph[f][pq] > 0 /\ st.results[f][pq] = 4 * st.results_alph[f][pq]

(* C5: a failed checkpoint load ends the call with an error: the solver's  *)
(* init and run are not called and no results are returned.                *)
C5_LoadFailurePropagates ==
    st.load_failed =>
        /\ \A i \in 1..Len(st.trace) : ~(st.trace[i].name \in {"init", "run"})
        /\ st.pc # "done"

(* C6: every checkpoint file the call opens, written or read, has a name   *)
(* that starts with the prefix setting.                                    *)
C6_PrefixOnEveryFile ==
    \A i \in 1..Len(st.opened) : StartsWith(st.opened[i].name, Prefix(st.cfg))

SameButBeta(t, u) ==
    /\ Len(t) = Len(u)
    /\ \A r \in 1..Len(t) : t[r][1] = u[r][1] /\ t[r][2] = u[r][2] /\ t[r][3] = u[r][3]

(* C8: the alpha index set depends on the alpha counts alone: a table that *)
(* differs only in its beta occupied counts gives the same alpha set.      *)
C8_AlphaIndicesIgnoreBeta ==
    st.pc = "ediff" =>
        \A u \in TablesOf(Len(st.fragment_occupations)) :
            SameButBeta(st.fragment_occupations, u) =>
                IndicesAlph(u, st.cfg._frgm_response_idx) = st.indices_mo_alph

(* What a caller and the solver can see of a call. *)
Visible(s) ==
    [pc |-> s.pc, err |-> s.err, f |-> s.f,
     trace |-> s.trace, operators |-> s.operators,
     opened |-> s.opened, saved |-> s.saved, disk |-> s.disk,
     results_alph |-> s.results_alph, results_beta |-> s.results_beta,
     results |-> s.results]

(* C10: two calls that differ only in print_level make the same solver     *)
(* calls with the same vectors, write the same files and return the same   *)
(* tensor; the per-frequency tensor filled and doubled for the report      *)
(* leaves nothing in the stored slices.                                    *)
C10_PrintLevelInert == Visible(st) = Visible(tw)

C10_Witness ==
    /\ Returned
    /\ st.cfg.print_level >= 1 /\ tw.cfg.print_level = 0
    /\ st.nden = 2
    /\ \E i \in 1..Len(st.out) :
         /\ st.out[i][1] = "Uncoupled result"
         /\ \E pq \in DOMAIN st.out[i][2] : st.out[i][2][pq] # 0
    /\ \E pq \in DOMAIN st.results[1] : st.results[1][pq] # 0

====
